---- MODULE Spec2Model ----
(***************************************************************************)
(* State-machine model of the two iterative solvers of pymanopt:           *)
(*   pymanopt/solvers/conjugate_gradient.py  (ConjugateGradient)           *)
(*   pymanopt/solvers/particle_swarm.py      (ParticleSwarm)               *)
(* The manifold is the flat real line (retr(x,u) = x + u, transp = id,     *)
(* inner(x,u,v) = u*v, log(x,y) = y - x); numbers are exact rationals      *)
(* <<n, d>> with the semantics of Python scalars (x / 0 raises             *)
(* ZeroDivisionError; inf and nan exist as values).                        *)
(***************************************************************************)
EXTENDS Integers, Sequences, FiniteSets, TLC

(***************************************************************************)
(* Bounds of the model.                                                    *)
(***************************************************************************)
\* solve calls made on one solver object
MaxSolves == 2
\* largest value of the iteration counter that is explored
MaxIter == 3

(***************************************************************************)
(* Exact rational arithmetic: <<n, d>>, d > 0, in lowest terms.            *)
(* <<1, 0>> is +inf, <<-1, 0>> is -inf, <<0, 0>> is nan.                   *)
(***************************************************************************)
IAbs(n) == IF n < 0 THEN -n ELSE n

RECURSIVE GCD(_, _)
GCD(a, b) == IF b = 0 THEN a ELSE GCD(b, a % b)

Norm(n, d) ==
    IF d = 0 THEN <<(IF n > 0 THEN 1 ELSE IF n < 0 THEN -1 ELSE 0), 0>>
    ELSE LET g == GCD(IAbs(n), IAbs(d))
             s == IF d < 0 THEN -1 ELSE 1
         IN  <<(s * n) \div g, (s * d) \div g>>

R(n) == <<n, 1>>
Inf == <<1, 0>>
NaN == <<0, 0>>
IsNaN(a) == a = NaN
IsZero(a) == a[1] = 0 /\ a[2] # 0

RAdd(a, b) == Norm(a[1] * b[2] + b[1] * a[2], a[2] * b[2])
RNeg(a) == <<-a[1], a[2]>>
RSub(a, b) == RAdd(a, RNeg(b))
RMul(a, b) == Norm(a[1] * b[1], a[2] * b[2])
\* a / b for b # 0 (the callers raise ZeroDivisionError first)
RDiv(a, b) == Norm(a[1] * b[2], a[2] * b[1])
RAbs(a) == <<IAbs(a[1]), a[2]>>
\* every comparison with nan is False
RLt(a, b) == ~IsNaN(a) /\ ~IsNaN(b) /\ a[1] * b[2] < b[1] * a[2]
RLe(a, b) == ~IsNaN(a) /\ ~IsNaN(b) /\ a[1] * b[2] <= b[1] * a[2]
RGe(a, b) == RLe(b, a)
\* Python's max(a, b): b if b > a else a
RMax(a, b) == IF RLt(a, b) THEN b ELSE a
\* Python's min(a, b): b if b < a else a
RMin(a, b) == IF RLt(b, a) THEN b ELSE a

(***************************************************************************)
(* Inputs.                                                                 *)
(***************************************************************************)
\* points of the line the solvers visit
Points == {0, 1, 2}
\* values a gradient callable returns at a point
GradVals == {-1, 0, 1}
\* preconditioners: u |-> p * u, positive definite
PreconVals == {1, 2}
\* the rules of the BetaTypes enumeration
BetaTypes == {"FletcherReeves", "PolakRibiere", "HestenesStiefel", "HagerZhang"}
\* values a caller passes as beta_type
BetaInputs == BetaTypes \cup {"Bogus"}
\* values a caller passes as orth_value (the default is inf)
OrthInputs == {Inf, R(1)}
\* values a caller passes as mingradnorm
MinGradNormInputs == {R(0), <<1, 1000000>>}
\* the minstepsize threshold the solvers are constructed with
MinStepSize == <<1, 1000000>>

\* an option left at None
NoneInt == -1
\* manifold dimensions (they size the default options)
Dims == {1, 200, 3000}
\* values a caller passes as populationsize
PopInputs == {NoneInt, 1, 4}
\* values a caller passes as maxcostevals
MaxCostEvalsInputs == {NoneInt, 4}
\* points man.rand() returns
RandPoints == {R(0), R(3)}
\* tangent vectors man.randvec(x) returns (unit norm)
RandVecs == {R(1), R(-1)}
\* values rnd.rand() returns, in [0, 1)
RandVals == {R(0), <<5, 7>>}
\* initial populations a caller passes as a list
XInputs == {<< >>, <<R(0)>>, <<R(3), R(0)>>, <<R(0), R(2)>>}
\* the minimiser of the cost |p - Target|
Target == R(1)
\* largest swarm that is explored when the population is drawn at random
MaxSwarm == 2

\* Object references: None, the line search given at construction, and the
\* copies solve makes.
NoneRef == 0
ConfiguredRef == 1
Refs == 1 .. (MaxSolves + 1)
\* the _oldalpha of a line search that has not run yet
NoneAlpha == NaN

VARIABLES
    gradfn,     \* problem.grad, a table over Points
    precon,     \* problem.precon(x, u) = precon * u
    cgs,        \* the ConjugateGradient object (self)
    lsmem,      \* the line-search objects: reference -> _oldalpha
    cg,         \* the locals of ConjugateGradient.solve
    cgpc,       \* where the ConjugateGradient caller / solve stands
    cgcalls     \* solve calls finished on the ConjugateGradient object

cgvars == <<gradfn, precon, cgs, lsmem, cg, cgpc, cgcalls>>

VARIABLES
    pss,        \* the ParticleSwarm object (self)
    ps,         \* the locals of ParticleSwarm.solve
    pspc,       \* where the ParticleSwarm caller / solve stands
    pscalls     \* solve calls finished on the ParticleSwarm object

psvars == <<pss, ps, pspc, pscalls>>

vars == <<cgvars, psvars>>

(***************************************************************************)
(* The manifold (flat line) and the problem.                               *)
(***************************************************************************)
inner(x, u, v) == RMul(u, v)
norm(x, u) == RAbs(u)
transp(x, y, u) == u
gradient(x) == R(gradfn[x])
problem_precon(x, u) == RMul(R(precon), u)

\* Base points.  On the flat line a tangent vector is a number, so the point
\* a vector is attached to is kept beside it: attached(p, bases) says that
\* every vector an operation at p is given is attached to p, and
\* transp_base is the base of the result of man.transp(x, y, u).
attached(p, bases) == \A b \in bases : b = p
transp_base(x, y, b) == y

(***************************************************************************)
(* Solver._check_stopping_criterion: the first matching reason, in the     *)
(* fixed order, or "None".  timeup is whether the wall clock passed        *)
(* maxtime; costevals < 0 and a nan stepsize stand for "not given".        *)
(***************************************************************************)
check_stopping_criterion(timeup, gradnorm, iter, costevals, stepsize, self) ==
    IF timeup THEN "maxtime"
    ELSE IF RLt(gradnorm, self.mingradnorm) THEN "mingradnorm"
    ELSE IF iter >= self.maxiter THEN "maxiter"
    ELSE IF costevals >= 0 /\ costevals >= self.maxcostevals THEN "maxcostevals"
    ELSE IF RLt(stepsize, self.minstepsize) THEN "minstepsize"
    ELSE "None"

(***************************************************************************)
(* LineSearchAdaptive.search(objective, man, x, d, f0, df0) on the line:   *)
(* the new point is x + alpha * d for a step alpha >= 0 (alpha = 0 when no *)
(* decrease was found), stepsize = alpha * norm(d), and the remembered     *)
(* step is set to alpha or 2 * alpha.  The cost decides which of these     *)
(* outcomes happens; every one is possible for some cost.                  *)
(***************************************************************************)
search_outcomes(x, d) ==
    IF IsZero(d)
    THEN {[newx |-> x, stepsize |-> R(0), oldalpha |-> R(0)]}
    ELSE { [newx |-> p, stepsize |-> R(IAbs(p - x)), oldalpha |-> RMul(R(k), RDiv(R(p - x), d))] :
             <<p, k>> \in { q \in Points \X {1, 2} :
                              /\ (q[1] - x) * d[1] >= 0
                              /\ (q[1] = x => q[2] = 1) } }

(***************************************************************************)
(* ConjugateGradient.                                                      *)
(***************************************************************************)
\* The locals of solve between two calls.  The cost values (cost, newcost)
\* are left out: solve only hands them to the printer, the log and the line
\* search, whose outcome is drawn by search_outcomes.  checks counts the
\* calls of _check_stopping_criterion the solve call has made.  gradb, Pgradb
\* and descb are the base points of grad, Pgrad and desc_dir, and wellbased
\* is whether every manifold operation so far was given vectors attached to
\* the point it was given.
CGNoLocals ==
    [x |-> 0, grad |-> R(0), Pgrad |-> R(0), gradPgrad |-> R(0),
     gradnorm |-> R(0), desc_dir |-> R(0), df0 |-> R(0), stepsize |-> NaN,
     iter |-> 0, newx |-> 0, beta |-> R(0), orth_grads |-> R(0),
     linesearch |-> NoneRef, reuselinesearch |-> FALSE,
     gradb |-> 0, Pgradb |-> 0, descb |-> 0, wellbased |-> TRUE,
     checks |-> 0, stop_reason |-> "None", err |-> "None"]

\* __init__ with its default arguments (maxcostevals is never read: solve
\* does not pass costevals to the stopping criterion)
CGDefaults ==
    [beta_type |-> "HestenesStiefel", orth_value |-> Inf,
     maxiter |-> MaxIter, mingradnorm |-> <<1, 1000000>>,
     minstepsize |-> MinStepSize, maxcostevals |-> 0,
     ls_configured |-> ConfiguredRef, linesearch |-> NoneRef]

CGInit ==
    /\ gradfn \in [Points -> GradVals]
    /\ precon \in PreconVals
    /\ cgs = CGDefaults
    /\ lsmem = [r \in Refs |-> NoneAlpha]
    /\ cg = CGNoLocals
    /\ cgpc = "new"
    /\ cgcalls = 0

\* __init__: stores its arguments as given; beta_type is not looked at.
CGConstruct ==
    /\ cgpc = "new"
    /\ \E bt \in BetaInputs, ov \in OrthInputs, mg \in MinGradNormInputs :
         cgs' = [cgs EXCEPT !.beta_type = bt, !.orth_value = ov,
                            !.mingradnorm = mg]
    /\ cgpc' = "idle"
    /\ UNCHANGED <<psvars, gradfn, precon, lsmem, cg, cgcalls>>

\* (mutant) no copy is made: the configured object itself is used
deepcopy_alias(src, fresh) == src

\* deepcopy(self._linesearch): the reference of the new object
deepcopy_ref(src, fresh) == fresh

\* solve, up to the loop: the line search to use, the initial point and the
\* initial cost-related quantities.
CGSolveBegin ==
    /\ cgpc = "idle"
    /\ cgcalls < MaxSolves
    /\ \E x0 \in Points, reuselinesearch \in BOOLEAN :
         LET copy == ~reuselinesearch \/ cgs.linesearch = NoneRef
             ref  == IF copy THEN deepcopy_ref(cgs.ls_configured, cgcalls + 2)
                     ELSE cgs.linesearch
             grad == gradient(x0)
             Pgrad == problem_precon(x0, grad)
         IN  /\ cgs' = [cgs EXCEPT !.linesearch = ref]
             /\ lsmem' = IF copy /\ ref # cgs.ls_configured
                         THEN [r \in Refs |->
                                 IF r = ref THEN lsmem[cgs.ls_configured]
                                 ELSE IF r = cgs.linesearch /\ r # cgs.ls_configured
                                      THEN NoneAlpha ELSE lsmem[r]]
                         ELSE lsmem
             /\ cg' = [CGNoLocals EXCEPT
                         !.x = x0, !.grad = grad, !.gradnorm = norm(x0, grad),
                         !.Pgrad = Pgrad, !.gradPgrad = inner(x0, grad, Pgrad),
                         !.desc_dir = RNeg(Pgrad), !.linesearch = ref,
                         !.reuselinesearch = reuselinesearch,
                         !.gradb = x0, !.Pgradb = x0, !.descb = x0,
                         !.wellbased = attached(x0, {x0}),
                         !.iter = 0, !.stepsize = NaN]
    /\ cgpc' = "check"
    /\ UNCHANGED <<psvars, gradfn, precon, cgcalls>>

\* the head of the loop: the stopping criterion
CGCheck ==
    /\ cgpc = "check"
    /\ \E timeup \in BOOLEAN :
         LET reason == check_stopping_criterion(timeup, cg.gradnorm, cg.iter + 1,
                                                -1, cg.stepsize, cgs)
         IN  /\ cg' = [cg EXCEPT !.stop_reason = reason, !.checks = @ + 1]
             /\ cgpc' = IF reason # "None" THEN "done" ELSE "direction"
    /\ UNCHANGED <<psvars, gradfn, precon, cgs, lsmem, cgcalls>>

\* whether df0 is taken as "not a descent direction"
not_descent(df0) == RGe(df0, R(0))

\* the directional derivative, and the reset to steepest descent
CGDirection ==
    /\ cgpc = "direction"
    /\ LET df0 == inner(cg.x, cg.grad, cg.desc_dir)
           based == cg.wellbased /\ attached(cg.x, {cg.gradb, cg.descb})
       IN  cg' = IF not_descent(df0)
                 THEN [cg EXCEPT !.desc_dir = RNeg(cg.Pgrad),
                                 !.descb = cg.Pgradb,
                                 !.df0 = RNeg(cg.gradPgrad),
                                 !.wellbased = based]
                 ELSE [cg EXCEPT !.df0 = df0, !.wellbased = based]
    /\ cgpc' = "search"
    /\ UNCHANGED <<psvars, gradfn, precon, cgs, lsmem, cgcalls>>

\* linesearch.search(objective, man, x, desc_dir, cost, df0)
CGLineSearch ==
    /\ cgpc = "search"
    /\ \E o \in search_outcomes(cg.x, cg.desc_dir) :
         /\ cg' = [cg EXCEPT !.stepsize = o.stepsize, !.newx = o.newx,
                              !.wellbased = @ /\ attached(cg.x, {cg.descb})]
         /\ lsmem' = [lsmem EXCEPT ![cg.linesearch] = o.oldalpha]
    /\ cgpc' = "scheme"
    /\ UNCHANGED <<psvars, gradfn, precon, cgs, cgcalls>>

\* (mutant) the restart test with > for >=
powell_restart_strict(orth_grads, orth_value) == RLt(orth_value, RAbs(orth_grads))

\* Powell's restart test on orth_grads
powell_restart(orth_grads, orth_value) == RGe(RAbs(orth_grads), orth_value)

\* The beta of the configured rule, [err, beta]; d is the transported
\* previous direction (desc_dir after line 184).
beta_FletcherReeves(newgradPnewgrad, gradPgrad) ==
    IF IsZero(gradPgrad) THEN [err |-> "ZeroDivisionError", beta |-> R(0)]
    ELSE [err |-> "None", beta |-> RDiv(newgradPnewgrad, gradPgrad)]

beta_PolakRibiere(newx, newgrad, oldgrad, Pnewgrad, gradPgrad) ==
    LET diff == RSub(newgrad, oldgrad)
        ip_diff == inner(newx, Pnewgrad, diff)
    IN  IF IsZero(gradPgrad) THEN [err |-> "ZeroDivisionError", beta |-> R(0)]
        ELSE [err |-> "None", beta |-> RMax(R(0), RDiv(ip_diff, gradPgrad))]

\* (mutant) Hestenes-Stiefel without the except clause
beta_HestenesStiefel_noexcept(newx, newgrad, oldgrad, Pnewgrad, d) ==
    LET diff == RSub(newgrad, oldgrad)
        ip_diff == inner(newx, Pnewgrad, diff)
        deno == inner(newx, diff, d)
    IN  IF IsZero(deno) THEN [err |-> "ZeroDivisionError", beta |-> R(0)]
        ELSE [err |-> "None", beta |-> RMax(R(0), RDiv(ip_diff, deno))]

beta_HestenesStiefel(newx, newgrad, oldgrad, Pnewgrad, d) ==
    LET diff == RSub(newgrad, oldgrad)
        ip_diff == inner(newx, Pnewgrad, diff)
        deno == inner(newx, diff, d)
    IN  IF IsZero(deno) THEN [err |-> "None", beta |-> R(1)]
        ELSE [err |-> "None", beta |-> RMax(R(0), RDiv(ip_diff, deno))]

beta_HagerZhang(x, newx, newgrad, oldgrad, Pnewgrad, Pgrad, d, gradnorm) ==
    LET diff == RSub(newgrad, oldgrad)
        Poldgrad == transp(x, newx, Pgrad)
        Pdiff == RSub(Pnewgrad, Poldgrad)
        deno == inner(newx, diff, d)
        numo0 == inner(newx, diff, Pnewgrad)
        desc_dir_norm == norm(newx, d)
        etaden == RMul(desc_dir_norm, RMin(<<1, 100>>, gradnorm))
    IN  IF IsZero(deno) \/ IsZero(etaden)
        THEN [err |-> "ZeroDivisionError", beta |-> R(0)]
        ELSE LET numo == RSub(numo0,
                              RDiv(RMul(RMul(R(2), inner(newx, diff, Pdiff)),
                                        inner(newx, d, newgrad)), deno))
                 eta_HZ == RDiv(R(-1), etaden)
             IN  [err |-> "None", beta |-> RMax(RDiv(numo, deno), eta_HZ)]

\* lines 186-226: the rule chosen by self._beta_type
beta_rule(beta_type, x, newx, newgrad, oldgrad, Pnewgrad, d, l) ==
    IF beta_type = "FletcherReeves"
    THEN beta_FletcherReeves(inner(newx, newgrad, Pnewgrad), l.gradPgrad)
    ELSE IF beta_type = "PolakRibiere"
    THEN beta_PolakRibiere(newx, newgrad, oldgrad, Pnewgrad, l.gradPgrad)
    ELSE IF beta_type = "HestenesStiefel"
    THEN beta_HestenesStiefel(newx, newgrad, oldgrad, Pnewgrad, d)
    ELSE IF beta_type = "HagerZhang"
    THEN beta_HagerZhang(x, newx, newgrad, oldgrad, Pnewgrad, l.Pgrad, d, l.gradnorm)
    ELSE [err |-> "ValueError", beta |-> R(0)]

\* lines 168-238: the quantities at newx, the CG scheme, the next state of
\* the locals; [err, ...] with err # "None" when an exception leaves solve.
cg_scheme(self, l) ==
    LET x == l.x
        newx == l.newx
        newgrad == gradient(newx)
        newgradnorm == norm(newx, newgrad)
        Pnewgrad == problem_precon(newx, newgrad)
        newgradPnewgrad == inner(newx, newgrad, Pnewgrad)
        oldgrad == transp(x, newx, l.grad)
    IN  IF IsZero(newgradPnewgrad)
        THEN [l EXCEPT !.err = "ZeroDivisionError"]
        ELSE
        LET orth_grads == RDiv(inner(newx, oldgrad, Pnewgrad), newgradPnewgrad)
            moved == [l EXCEPT !.x = newx, !.grad = newgrad, !.Pgrad = Pnewgrad,
                               !.gradnorm = newgradnorm,
                               !.gradPgrad = newgradPnewgrad,
                               !.orth_grads = orth_grads, !.iter = l.iter + 1]
        IN  IF powell_restart(orth_grads, self.orth_value)
            THEN [moved EXCEPT !.beta = R(0), !.desc_dir = RNeg(Pnewgrad)]
            ELSE LET d == transp(x, newx, l.desc_dir)
                     b == beta_rule(self.beta_type, x, newx, newgrad, oldgrad,
                                    Pnewgrad, d, l)
                 IN  IF b.err # "None"
                     THEN [l EXCEPT !.err = b.err, !.orth_grads = orth_grads]
                     ELSE [moved EXCEPT
                             !.beta = b.beta,
                             !.desc_dir = RAdd(RNeg(Pnewgrad), RMul(b.beta, d))]

\* (mutant) line 184 left out: desc_dir stays where it was
moved_desc_dir_base_kept(x, newx, descb) == descb

\* line 184: the base of desc_dir after man.transp(x, newx, desc_dir)
moved_desc_dir_base(x, newx, descb) == transp_base(x, newx, descb)

\* lines 168-238 again, for the base points: the bases of grad, Pgrad and
\* desc_dir after the iteration, and whether each transp, inner, norm, sum
\* and difference of these lines was given vectors attached to its point.
cg_scheme_bases(self, l) ==
    LET x == l.x
        newx == l.newx
        newgrad == gradient(newx)
        Pnewgrad == problem_precon(newx, newgrad)
        newgradPnewgrad == inner(newx, newgrad, Pnewgrad)
        oldgrad == transp(x, newx, l.grad)
        oldgradb == transp_base(x, newx, l.gradb)
        \* lines 175-176
        orth_ok == attached(x, {l.gradb}) /\ attached(newx, {oldgradb, newx})
        kept == [gradb |-> l.gradb, Pgradb |-> l.Pgradb, descb |-> l.descb]
    IN  IF IsZero(newgradPnewgrad)
        THEN kept @@ [ok |-> orth_ok]
        ELSE
        LET orth_grads == RDiv(inner(newx, oldgrad, Pnewgrad), newgradPnewgrad)
        IN  IF powell_restart(orth_grads, self.orth_value)
            THEN [gradb |-> newx, Pgradb |-> newx, descb |-> newx, ok |-> orth_ok]
            ELSE LET d == transp(x, newx, l.desc_dir)
                     db == moved_desc_dir_base(x, newx, l.descb)
                     Poldgradb == transp_base(x, newx, l.Pgradb)
                     b == beta_rule(self.beta_type, x, newx, newgrad, oldgrad,
                                    Pnewgrad, d, l)
                     \* line 184
                     transp_ok == attached(x, {l.descb})
                     \* lines 186-218
                     rule_ok ==
                        IF self.beta_type = "PolakRibiere"
                        THEN attached(newx, {newx, oldgradb})
                        ELSE IF self.beta_type = "HestenesStiefel"
                        THEN attached(newx, {newx, oldgradb, db})
                        ELSE IF self.beta_type = "HagerZhang"
                        THEN /\ attached(x, {l.Pgradb})
                             /\ attached(newx, {newx, oldgradb, Poldgradb, db})
                        ELSE TRUE
                     \* line 228
                     sum_ok == attached(newx, {newx, db})
                 IN  IF b.err # "None"
                     THEN kept @@ [ok |-> orth_ok /\ transp_ok /\ rule_ok]
                     ELSE [gradb |-> newx, Pgradb |-> newx, descb |-> newx,
                           ok |-> orth_ok /\ transp_ok /\ rule_ok /\ sum_ok]

CGScheme ==
    /\ cgpc = "scheme"
    /\ LET bases == cg_scheme_bases(cgs, cg)
       IN  cg' = [cg_scheme(cgs, cg) EXCEPT
                    !.gradb = bases.gradb, !.Pgradb = bases.Pgradb,
                    !.descb = bases.descb, !.wellbased = @ /\ bases.ok]
    /\ cgpc' = IF cg'.err # "None" THEN "raised" ELSE "check"
    /\ UNCHANGED <<psvars, gradfn, precon, cgs, lsmem, cgcalls>>

\* solve returns x, or an exception reaches the caller
CGReturn ==
    /\ cgpc \in {"done", "raised"}
    /\ cg' = CGNoLocals
    /\ cgpc' = "idle"
    /\ cgcalls' = cgcalls + 1
    /\ UNCHANGED <<psvars, gradfn, precon, cgs, lsmem>>

CGNext ==
    \/ CGConstruct
    \/ CGSolveBegin
    \/ CGCheck
    \/ CGDirection
    \/ CGLineSearch
    \/ CGScheme
    \/ CGReturn


(***************************************************************************)
(* ParticleSwarm.                                                          *)
(***************************************************************************)
\* problem.cost
objective(p) == RAbs(RSub(p, Target))
retr(x, u) == RAdd(x, u)
log(x, y) == RSub(y, x)

\* the locals of solve between two calls; given is how x was passed
\* ("omitted", "noniterable" or "list"), passed the list as it was passed
\* and checks the calls of _check_stopping_criterion made so far; vb[i] is
\* the base point of the velocity v[i], and wellbased is whether every
\* manifold operation so far was given vectors attached to its point
PSNoLocals ==
    [given |-> "omitted", passed |-> << >>, dim |-> 0,
     x |-> << >>, y |-> << >>, xprev |-> << >>, v |-> << >>,
     costs |-> << >>, fy |-> << >>, costevals |-> 0,
     fbest |-> R(0), xbest |-> R(0), iter |-> 0, w |-> R(0), i |-> 0,
     vb |-> << >>, wellbased |-> TRUE,
     checks |-> 0, stop_reason |-> "None", err |-> "None"]

\* __init__ with its default arguments
PSDefaults ==
    [maxcostevals |-> NoneInt, maxiter |-> NoneInt, populationsize |-> NoneInt,
     nostalgia |-> <<7, 5>>, social |-> <<7, 5>>,
     mingradnorm |-> <<1, 1000000>>, minstepsize |-> MinStepSize]

PSIdle ==
    /\ pss = PSDefaults
    /\ ps = PSNoLocals
    /\ pspc = "new"
    /\ pscalls = 0

PSConstruct ==
    /\ pspc = "new"
    /\ \E mc \in MaxCostEvalsInputs, mi \in {NoneInt, MaxIter}, pop \in PopInputs :
         pss' = [pss EXCEPT !.maxcostevals = mc, !.maxiter = mi,
                            !.populationsize = pop]
    /\ pspc' = "idle"
    /\ UNCHANGED <<cgvars, ps, pscalls>>

\* Python's max and min on integers
imax(a, b) == IF b > a THEN b ELSE a
imin(a, b) == IF b < a THEN b ELSE a

default_maxcostevals(dim) == imax(5000, 2 * dim)
default_maxiter(dim) == imax(500, 4 * dim)
\* (mutant) max for min
default_populationsize_max(dim) == imax(40, 10 * dim)

default_populationsize(dim) == imin(40, 10 * dim)

\* lines 63-69: the options left at None are set from the dimension
resolve_defaults(self, dim) ==
    [self EXCEPT
       !.maxcostevals = IF @ = NoneInt THEN default_maxcostevals(dim) ELSE @,
       !.maxiter = IF @ = NoneInt THEN default_maxiter(dim) ELSE @,
       !.populationsize = IF @ = NoneInt THEN default_populationsize(dim) ELSE @]

PSSolveBegin ==
    /\ pspc = "idle"
    /\ pscalls < MaxSolves
    /\ \E dim \in Dims, given \in {"omitted", "noniterable", "list"}, xin \in XInputs :
         /\ given # "list" => xin = << >>
         /\ pss' = resolve_defaults(pss, dim)
         /\ ps' = [PSNoLocals EXCEPT !.given = given, !.passed = xin,
                                     !.x = xin, !.dim = dim]
    /\ pspc' = "population"
    /\ UNCHANGED <<cgvars, pscalls>>

\* lines 73-83: the initial population.  (dim is not read after line 69 and
\* is dropped from the state here.)
PSPopulation ==
    /\ pspc = "population"
    /\ \/ /\ ps.given = "omitted"
          /\ pss.populationsize <= MaxSwarm
          /\ \E xs \in [1 .. pss.populationsize -> RandPoints] :
               ps' = [ps EXCEPT !.x = xs, !.dim = 0]
          /\ pspc' = "init"
          /\ pss' = pss
       \/ /\ ps.given = "noniterable"
          /\ ps' = [ps EXCEPT !.err = "ValueError", !.dim = 0]
          /\ pspc' = "raised"
          /\ pss' = pss
       \/ /\ ps.given = "list"
          /\ pss' = IF Len(ps.x) # pss.populationsize
                    THEN [pss EXCEPT !.populationsize = Len(ps.x)]
                    ELSE pss
          /\ ps' = [ps EXCEPT !.dim = 0]
          /\ pspc' = "init"
    /\ UNCHANGED <<cgvars, pscalls>>

\* costs.argmin(): the first index of a smallest cost
argmin(costs) ==
    CHOOSE i \in 1 .. Len(costs) :
        /\ \A j \in 1 .. Len(costs) : ~RLt(costs[j], costs[i])
        /\ \A j \in 1 .. (i - 1) : RLt(costs[i], costs[j])

\* lines 86-123: personal bests, velocities, costs, the best particle
PSInit ==
    /\ pspc = "init"
    /\ \/ /\ Len(ps.x) = 0
          /\ ps' = [ps EXCEPT !.err = "ValueError"]
          /\ pspc' = "raised"
       \/ /\ Len(ps.x) > 0
          /\ \E vs \in [1 .. Len(ps.x) -> RandVecs] :
               LET costs == [i \in 1 .. Len(ps.x) |-> objective(ps.x[i])]
                   imin_ == argmin(costs)
               IN  ps' = [ps EXCEPT !.y = ps.x, !.xprev = ps.x, !.v = vs,
                                    !.vb = ps.x,
                                    !.costs = costs, !.fy = costs,
                                    !.costevals = pss.populationsize,
                                    !.fbest = costs[imin_], !.xbest = ps.x[imin_],
                                    !.iter = 0]
          /\ pspc' = "check"
    /\ UNCHANGED <<cgvars, pss, pscalls>>

\* the inertia factor of line 145
inertia_factor(iter, maxiter) ==
    RAdd(<<2, 5>>, RMul(<<1, 2>>, RSub(R(1), Norm(iter, maxiter))))

\* (mutant) the for loop of lines 131-136 without its break
stopping_calls_nobreak(n, reasons) == n

\* lines 131-136: the number of calls the for loop makes, one per particle
\* up to the first call that returns a reason
stopping_calls(n, reasons) ==
    IF \E j \in 1 .. n : reasons[j] # "None"
    THEN CHOOSE j \in 1 .. n : /\ reasons[j] # "None"
                              /\ \A k \in 1 .. (j - 1) : reasons[k] = "None"
    ELSE n

\* lines 126-145: the head of the loop.  The stopping criterion is called
\* once per particle; first is the first call at which the wall clock has
\* passed maxtime (none when first exceeds the swarm).  Only solvers whose
\* maxiter is at most MaxIter are followed into the loop.
PSCheck ==
    /\ pspc = "check"
    /\ pss.maxiter <= MaxIter
    /\ \E first \in 1 .. (Len(ps.x) + 1) :
         LET iter == ps.iter + 1
             n == Len(ps.x)
             reasons == [j \in 1 .. n |->
                           check_stopping_criterion(j >= first, Inf, iter,
                                                    ps.costevals, Inf, pss)]
             calls == stopping_calls(n, reasons)
             reason == reasons[calls]
         IN  /\ ps' = [ps EXCEPT !.iter = iter, !.stop_reason = reason,
                                 !.checks = @ + calls,
                                 !.w = IF reason = "None"
                                       THEN inertia_factor(iter, pss.maxiter)
                                       ELSE @,
                                 !.i = 1]
             /\ pspc' = IF reason # "None" THEN "done" ELSE "velocity"
    /\ UNCHANGED <<cgvars, pss, pscalls>>

\* lines 148-162: the new velocity of particle i
PSVelocity ==
    /\ pspc = "velocity"
    /\ \E r1 \in RandVals, r2 \in RandVals :
         LET i == ps.i
             xi == ps.x[i]
             inertia == RMul(ps.w, transp(ps.xprev[i], xi, ps.v[i]))
             nostalgia == RMul(RMul(r1, pss.nostalgia), log(xi, ps.y[i]))
             social == RMul(RMul(r2, pss.social), log(xi, ps.xbest))
             \* line 158, and the sum of line 162 at xi
             inertiab == transp_base(ps.xprev[i], xi, ps.vb[i])
             based == /\ attached(ps.xprev[i], {ps.vb[i]})
                      /\ attached(xi, {inertiab, xi})
         IN  ps' = [ps EXCEPT !.v[i] = RAdd(RAdd(inertia, nostalgia), social),
                              !.vb[i] = xi,
                              !.wellbased = @ /\ based,
                              !.i = i + 1]
    /\ pspc' = IF ps.i = Len(ps.x) THEN "snapshot" ELSE "velocity"
    /\ UNCHANGED <<cgvars, pss, pscalls>>

\* line 165
PSSnapshot ==
    /\ pspc = "snapshot"
    /\ ps' = [ps EXCEPT !.xprev = ps.x, !.i = 1]
    /\ pspc' = "update"
    /\ UNCHANGED <<cgvars, pss, pscalls>>

\* the point whose cost line 172 evaluates: xi, the loop variable, which
\* still names the position the particle had before line 170
evaluated_point(xi, newxi) == xi

\* (mutant) the comparison reversed
improves_reversed(f, best) == RLt(best, f)

\* (mutant) <= for <
improves_or_equals(f, best) == RLe(f, best)

\* line 177 and line 181
improves(f, best) == RLt(f, best)

\* lines 168-183: the new position of particle i and the bests
PSUpdate ==
    /\ pspc = "update"
    /\ LET i == ps.i
           xi == ps.x[i]
           newxi == retr(xi, ps.v[i])
           fxi == objective(evaluated_point(xi, newxi))
           better == improves(fxi, ps.fy[i])
           best == better /\ improves(fxi, ps.fbest)
       IN  ps' = [ps EXCEPT !.x[i] = newxi,
                            !.wellbased = @ /\ attached(xi, {ps.vb[i]}),
                            !.costs[i] = fxi,
                            !.fy[i] = IF better THEN fxi ELSE @,
                            !.y[i] = IF better THEN evaluated_point(xi, newxi) ELSE @,
                            !.fbest = IF best THEN fxi ELSE @,
                            !.xbest = IF best THEN evaluated_point(xi, newxi) ELSE @,
                            !.i = i + 1]
    /\ pspc' = IF ps.i = Len(ps.x) THEN "evals" ELSE "update"
    /\ UNCHANGED <<cgvars, pss, pscalls>>

\* line 184
PSCountEvals ==
    /\ pspc = "evals"
    /\ ps' = [ps EXCEPT !.costevals = @ + pss.populationsize]
    /\ pspc' = "check"
    /\ UNCHANGED <<cgvars, pss, pscalls>>

\* solve returns xbest, or an exception reaches the caller
PSReturn ==
    /\ pspc \in {"done", "raised"}
    /\ ps' = PSNoLocals
    /\ pspc' = "idle"
    /\ pscalls' = pscalls + 1
    /\ UNCHANGED <<cgvars, pss>>

PSNext ==
    \/ PSConstruct
    \/ PSSolveBegin
    \/ PSPopulation
    \/ PSInit
    \/ PSCheck
    \/ PSVelocity
    \/ PSSnapshot
    \/ PSUpdate
    \/ PSCountEvals
    \/ PSReturn

(***************************************************************************)
(* Specifications: a caller that constructs one solver and calls solve on  *)
(* it up to MaxSolves times.                                               *)
(***************************************************************************)
\* a ConjugateGradient caller
InitCG ==
    /\ CGInit
    /\ PSIdle

SpecCG == InitCG /\ [][CGNext]_vars

\* a ParticleSwarm caller
InitPS ==
    /\ gradfn = [p \in Points |-> 0]
    /\ precon = 1
    /\ cgs = CGDefaults
    /\ lsmem = [r \in Refs |-> NoneAlpha]
    /\ cg = CGNoLocals
    /\ cgpc = "new"
    /\ cgcalls = 0
    /\ PSIdle

SpecPS == InitPS /\ [][PSNext]_vars

\* a caller that constructs one of the two solvers and calls solve on it.
\* ParticleSwarm reads no gradient and no preconditioner: its problem
\* carries the zero table.
SolversNext ==
    \/ /\ pspc = "new"
       /\ CGConstruct
    \/ /\ cgpc = "new"
       /\ gradfn = [p \in Points |-> 0]
       /\ precon = 1
       /\ PSConstruct
    \/ CGSolveBegin
    \/ CGCheck
    \/ CGDirection
    \/ CGLineSearch
    \/ CGScheme
    \/ CGReturn
    \/ PSSolveBegin
    \/ PSPopulation
    \/ PSInit
    \/ PSCheck
    \/ PSVelocity
    \/ PSSnapshot
    \/ PSUpdate
    \/ PSCountEvals
    \/ PSReturn

SpecSolvers == InitCG /\ [][SolversNext]_vars

(***************************************************************************)
(* Properties.                                                             *)
(***************************************************************************)
CGLoop == {"check", "direction", "search", "scheme"}
PSLoop == {"check", "velocity", "snapshot", "update", "evals", "done"}

\* C1: a ConjugateGradient solver whose beta_type is none of the four rules
\* is rejected at construction, so no solve call of such a solver reaches
\* the iteration loop.
C1_UnknownBetaTypeNeverReachesLoop ==
    cgs.beta_type \notin BetaTypes => cgpc \notin CGLoop

\* C2: the directional derivative df0 handed to linesearch.search is
\* strictly negative in every iteration.
C2_Df0StrictlyNegative ==
    cgpc = "search" => RLt(cg.df0, R(0))

\* C3: Powell restart.  In an iteration with |orth| >= orth_value, whatever
\* the beta_type, beta is 0 and the next direction is exactly -Pnewgrad; an
\* iteration with |orth| < orth_value that computes a beta leaves the
\* direction -Pnewgrad + beta * (the previous direction transported to newx).
C3_PowellRestart ==
    [][LET newx == cg.newx
           Pnewgrad == problem_precon(newx, gradient(newx))
           newgradPnewgrad == inner(newx, gradient(newx), Pnewgrad)
           orth == RDiv(inner(newx, transp(cg.x, newx, cg.grad), Pnewgrad),
                        newgradPnewgrad)
       IN  (cgpc = "scheme" /\ cgpc' # cgpc /\ ~IsZero(newgradPnewgrad)) =>
             /\ RGe(RAbs(orth), cgs.orth_value) =>
                  /\ cgpc' = "check"
                  /\ cg'.x = newx
                  /\ cg'.beta = R(0)
                  /\ cg'.desc_dir = RNeg(Pnewgrad)
             /\ (RLt(RAbs(orth), cgs.orth_value) /\ cgpc' = "check") =>
                  /\ cg'.x = newx
                  /\ cg'.desc_dir =
                       RAdd(RNeg(Pnewgrad),
                            RMul(cg'.beta, transp(cg.x, newx, cg.desc_dir)))
      ]_vars

\* C3 witness: a Fletcher-Reeves iteration has taken the restart branch at a
\* point with a nonzero previous direction.
C3_Witness ==
    /\ cgpc = "check"
    /\ cg.iter >= 1
    /\ cgs.beta_type = "FletcherReeves"
    /\ cgs.orth_value = R(1)
    /\ RGe(RAbs(cg.orth_grads), cgs.orth_value)
    /\ cg.beta = R(0)
    /\ cg.desc_dir = RNeg(cg.Pgrad)
    /\ ~IsZero(cg.desc_dir)

\* C4: with HestenesStiefel and no Powell restart, a denominator
\* inner(newx, newgrad - oldgrad, transported desc_dir) that is exactly zero
\* gives beta = 1 and the solve continues with
\* desc_dir = -Pnewgrad + 1 * transported desc_dir; no exception is raised.
C4_HestenesStiefelZeroDenominator ==
    [][LET newx == cg.newx
           newgrad == gradient(newx)
           Pnewgrad == problem_precon(newx, newgrad)
           oldgrad == transp(cg.x, newx, cg.grad)
           d == transp(cg.x, newx, cg.desc_dir)
       IN  ( /\ cgpc = "scheme"
             /\ cgs.beta_type = "HestenesStiefel"
             /\ ~IsZero(inner(newx, newgrad, Pnewgrad))
             /\ RLt(RAbs(RDiv(inner(newx, oldgrad, Pnewgrad),
                              inner(newx, newgrad, Pnewgrad))), cgs.orth_value)
             /\ IsZero(inner(newx, RSub(newgrad, oldgrad), d))
             /\ cgpc' # cgpc )
           => /\ cgpc' = "check"
              /\ cg'.err = "None"
              /\ cg'.beta = R(1)
              /\ cg'.desc_dir = RAdd(RNeg(Pnewgrad), d)
      ]_vars

\* C4 witness: a Hestenes-Stiefel iteration after a line search that did not
\* move (newx = x, so newgrad - oldgrad = 0) left beta = 1.
C4_Witness ==
    /\ cgpc = "check"
    /\ cg.iter >= 1
    /\ cgs.beta_type = "HestenesStiefel"
    /\ cgs.orth_value = Inf
    /\ IsZero(cg.stepsize)
    /\ ~IsZero(cg.grad)
    /\ cg.beta = R(1)
    /\ cg.desc_dir # RNeg(cg.Pgrad)

\* C5: fbest starts as the minimum initial particle cost and never
\* increases during a solve; neither does any personal best cost fy[i].
C5_BestCostsNonIncreasing ==
    [][/\ (pspc = "init" /\ pspc' = "check") =>
            /\ \A i \in 1 .. Len(ps.x) : RLe(ps'.fbest, objective(ps.x[i]))
            /\ \E i \in 1 .. Len(ps.x) : ps'.fbest = objective(ps.x[i])
       /\ (pspc \in PSLoop /\ pspc' \in PSLoop) =>
            /\ RLe(ps'.fbest, ps.fbest)
            /\ \A i \in 1 .. Len(ps.fy) : RLe(ps'.fy[i], ps.fy[i])
      ]_vars

\* C5 witness: fbest has dropped below every initial particle cost.
C5_Witness ==
    /\ pspc \in PSLoop
    /\ ps.given = "list"
    /\ Len(ps.passed) = 2
    /\ \A i \in 1 .. Len(ps.passed) : RLt(ps.fbest, objective(ps.passed[i]))

\* C6: right after the update of particle i, fy[i] <= cost(x[i]) for the
\* position x[i] just stored.
C6_PersonalBestAtMostCurrentCost ==
    pspc \in {"update", "evals"} =>
        \A j \in 1 .. (ps.i - 1) : RLe(ps.fy[j], objective(ps.x[j]))

\* C7: the stopping configuration and populationsize of a solver are the
\* same after every step of a solve call as before it.
C7_ConfigurationReadOnly ==
    [][/\ pspc # "new" => pss' = pss
       /\ cgpc # "new" =>
            /\ cgs'.beta_type = cgs.beta_type
            /\ cgs'.orth_value = cgs.orth_value
            /\ cgs'.maxiter = cgs.maxiter
            /\ cgs'.mingradnorm = cgs.mingradnorm
            /\ cgs'.minstepsize = cgs.minstepsize
            /\ cgs'.maxcostevals = cgs.maxcostevals
      ]_vars

\* C8: a solve call with reuselinesearch = False, and the first call, runs
\* on a new object that is a copy of the configured line search; a call with
\* reuselinesearch = True after an earlier solve runs on the object the
\* previous solve left; the configured line search is never modified, and a
\* search writes only to the object the call runs on.
C8_LineSearchState ==
    [][/\ (cgpc = "idle" /\ cgpc' = "check") =>
            /\ cgs'.linesearch = cg'.linesearch
            /\ (~cg'.reuselinesearch \/ cgs.linesearch = NoneRef) =>
                 /\ cg'.linesearch \notin {NoneRef, cgs.ls_configured, cgs.linesearch}
                 /\ lsmem'[cg'.linesearch] = lsmem[cgs.ls_configured]
            /\ (cg'.reuselinesearch /\ cgs.linesearch # NoneRef) =>
                 /\ cg'.linesearch = cgs.linesearch
                 /\ lsmem'[cg'.linesearch] = lsmem[cgs.linesearch]
       /\ cgs'.ls_configured = cgs.ls_configured
       /\ lsmem'[cgs.ls_configured] = lsmem[cgs.ls_configured]
       /\ cgpc \in CGLoop =>
            /\ cgs'.linesearch = cgs.linesearch
            /\ \A r \in Refs : r # cg.linesearch => lsmem'[r] = lsmem[r]
      ]_vars

\* C8 witness: a second solve called with reuselinesearch = True starts on
\* the object of the first solve, whose step memory is set.
C8_Witness ==
    /\ cgpc = "check"
    /\ cgcalls = 1
    /\ cg.iter = 0
    /\ cg.reuselinesearch
    /\ cg.linesearch = cgs.linesearch
    /\ lsmem[cg.linesearch] # NoneAlpha
    /\ lsmem[cgs.ls_configured] = NoneAlpha

\* C9: a non-iterable x raises before any cost is evaluated; a list whose
\* length differs from populationsize is accepted and populationsize
\* becomes its length, which is also the number of cost evaluations counted;
\* with x omitted the swarm is populationsize points of man.rand(); options
\* left unset become max(5000, 2*dim), max(500, 4*dim), min(40, 10*dim).
C9_InitialPopulation ==
    [][/\ (pspc = "idle" /\ pspc' = "population") =>
            LET dim == ps'.dim
            IN  /\ pss'.maxcostevals =
                     IF pss.maxcostevals # NoneInt THEN pss.maxcostevals
                     ELSE IF 2 * dim > 5000 THEN 2 * dim ELSE 5000
                /\ pss'.maxiter =
                     IF pss.maxiter # NoneInt THEN pss.maxiter
                     ELSE IF 4 * dim > 500 THEN 4 * dim ELSE 500
                /\ pss'.populationsize =
                     IF pss.populationsize # NoneInt THEN pss.populationsize
                     ELSE IF 10 * dim < 40 THEN 10 * dim ELSE 40
       /\ (pspc = "population" /\ pspc' # pspc /\ ps.given = "noniterable") =>
            /\ pspc' = "raised"
            /\ ps'.err = "ValueError"
            /\ ps'.costs = << >>
            /\ ps'.costevals = 0
       /\ (pspc = "population" /\ pspc' # pspc /\ ps.given = "list") =>
            /\ pspc' = "init"
            /\ ps'.err = "None"
            /\ ps'.x = ps.passed
            /\ pss'.populationsize = Len(ps.passed)
       /\ (pspc = "population" /\ pspc' # pspc /\ ps.given = "omitted") =>
            /\ pspc' = "init"
            /\ pss' = pss
            /\ Len(ps'.x) = pss.populationsize
            /\ \A i \in 1 .. Len(ps'.x) : ps'.x[i] \in RandPoints
       /\ (pspc = "init" /\ pspc' = "check") =>
            /\ Len(ps'.x) = pss.populationsize
            /\ ps'.costevals = Len(ps.x)
      ]_vars

\* C9 witness: the first solve of a solver was given a list of two points,
\* a length no solver is constructed with, and runs a swarm of two.
C9_Witness ==
    /\ pspc = "check"
    /\ pscalls = 0
    /\ ps.given = "list"
    /\ Len(ps.x) = 2
    /\ pss.populationsize = 2
    /\ ps.costevals = 2

\* C10: in the update of particle i the cost evaluated and compared with
\* fy[i] is the cost of the new position retr(x[i], v[i]) stored in x[i],
\* and an improvement sets y[i] (and xbest, if it also improves on fbest)
\* to that new position.
C10_EvaluatesNewPosition ==
    [][pspc = "update" =>
         LET i == ps.i
             newxi == retr(ps.x[i], ps.v[i])
         IN  /\ ps'.x[i] = newxi
             /\ ps'.costs[i] = objective(newxi)
             /\ RLt(objective(newxi), ps.fy[i]) =>
                  /\ ps'.fy[i] = objective(newxi)
                  /\ ps'.y[i] = newxi
             /\ (RLt(objective(newxi), ps.fy[i]) /\ RLt(objective(newxi), ps.fbest)) =>
                  /\ ps'.fbest = objective(newxi)
                  /\ ps'.xbest = newxi
      ]_vars

\* C11 (as claimed): in both solvers the stopping criterion is evaluated
\* exactly once per outer iteration, at the head of the iteration and never
\* between its state updates; once it reports a reason no point, direction,
\* velocity or best value changes any more and the solve returns.
C11_EvaluatedOncePerIteration ==
    [][/\ (cgpc = "check" /\ cgpc' # cgpc) => cg'.checks = cg.checks + 1
       /\ (pspc = "check" /\ pspc' # pspc) => ps'.checks = ps.checks + 1
       /\ cgpc \in {"direction", "search", "scheme"} => cg'.checks = cg.checks
       /\ pspc \in {"velocity", "snapshot", "update", "evals"} =>
            ps'.checks = ps.checks
       /\ (cgpc = "check" /\ cg'.stop_reason # "None") =>
            /\ cgpc' = "done"
            /\ cg'.x = cg.x /\ cg'.desc_dir = cg.desc_dir /\ cg'.grad = cg.grad
       /\ (pspc = "check" /\ ps'.stop_reason # "None") =>
            /\ pspc' = "done"
            /\ ps'.x = ps.x /\ ps'.v = ps.v /\ ps'.y = ps.y /\ ps'.fy = ps.fy
            /\ ps'.xbest = ps.xbest /\ ps'.fbest = ps.fbest
       /\ (cgpc = "done" /\ cgvars' # cgvars) => cgpc' = "idle"
       /\ (pspc = "done" /\ psvars' # psvars) => pspc' = "idle"
      ]_vars

\* C11 (amended): ConjugateGradient.solve evaluates the stopping criterion
\* exactly once per outer iteration; ParticleSwarm.solve evaluates it at the
\* head of each outer iteration once per particle, up to and including the
\* first call that reports a reason (all populationsize calls when none
\* does, one call when maxiter or maxcostevals is reached); neither
\* evaluates it between the state updates of an iteration, and once a reason
\* is reported no point, direction, velocity or best value changes any more
\* and the solve returns.
C11_EvaluatedAtIterationHead ==
    [][/\ (cgpc = "check" /\ cgpc' # cgpc) => cg'.checks = cg.checks + 1
       /\ (pspc = "check" /\ pspc' # pspc) =>
            LET calls == ps'.checks - ps.checks
            IN  /\ calls \in 1 .. Len(ps.x)
                /\ ps'.stop_reason = "None" => calls = Len(ps.x)
                /\ ps'.stop_reason \in {"maxiter", "maxcostevals"} => calls = 1
       /\ cgpc \in {"direction", "search", "scheme"} => cg'.checks = cg.checks
       /\ pspc \in {"velocity", "snapshot", "update", "evals"} =>
            ps'.checks = ps.checks
       /\ (cgpc = "check" /\ cg'.stop_reason # "None") =>
            /\ cgpc' = "done"
            /\ cg'.x = cg.x /\ cg'.desc_dir = cg.desc_dir /\ cg'.grad = cg.grad
       /\ (pspc = "check" /\ ps'.stop_reason # "None") =>
            /\ pspc' = "done"
            /\ ps'.x = ps.x /\ ps'.v = ps.v /\ ps'.y = ps.y /\ ps'.fy = ps.fy
            /\ ps'.xbest = ps.xbest /\ ps'.fbest = ps.fbest
       /\ (cgpc = "done" /\ cgvars' # cgvars) => cgpc' = "idle"
       /\ (pspc = "done" /\ psvars' # psvars) => pspc' = "idle"
      ]_vars

\* C11 witness: a swarm of two stopped on maxiter at the head of its third
\* iteration, after two calls in each of the first two iterations and one in
\* the third.
C11_Witness ==
    /\ pspc = "done"
    /\ Len(ps.x) = 2
    /\ ps.iter = 3
    /\ ps.stop_reason = "maxiter"
    /\ ps.checks = 5

\* C12: base-point discipline.  In every iteration of both solvers each
\* inner product, norm, sum, difference, transport, retraction and line
\* search is given only tangent vectors attached to the point it is given;
\* at every step of the ConjugateGradient loop grad, Pgrad and desc_dir are
\* attached to x, and a velocity of the swarm is attached to the previous
\* position of its particle until it is transported to the current one.
C12_BasePointDiscipline ==
    /\ cg.wellbased
    /\ ps.wellbased
    /\ cgpc \in CGLoop => attached(cg.x, {cg.gradb, cg.Pgradb, cg.descb})
    /\ pspc \in {"check", "update", "evals"} =>
         \A j \in 1 .. Len(ps.vb) : ps.vb[j] = ps.xprev[j]
    /\ pspc = "velocity" =>
         \A j \in 1 .. Len(ps.vb) :
            ps.vb[j] = IF j < ps.i THEN ps.x[j] ELSE ps.xprev[j]
    /\ pspc = "snapshot" => ps.vb = ps.x

\* C12 witness: a Hestenes-Stiefel iteration without restart has moved to
\* another point and combined the transported direction with the new
\* gradient there.
C12_Witness ==
    /\ cgpc = "check"
    /\ cg.iter >= 2
    /\ cgs.beta_type = "HestenesStiefel"
    /\ ~IsZero(cg.stepsize)
    /\ ~IsZero(cg.beta)
    /\ cg.desc_dir # RNeg(cg.Pgrad)
    /\ cg.descb = cg.x
    /\ cg.wellbased

\* C13: best-value bookkeeping of ParticleSwarm.solve.  At every head of the
\* loop and at return fy[i] = cost(y[i]) for every particle, fbest =
\* cost(xbest) and fbest is the least fy[i]; the first xbest is the particle
\* of lowest index among those of least cost, and xbest changes only in a
\* step in which fbest strictly decreases.
C13_BestValueBookkeeping ==
    [][/\ pspc' \in {"check", "done"} =>
            /\ \A i \in 1 .. Len(ps'.y) : ps'.fy[i] = objective(ps'.y[i])
            /\ ps'.fbest = objective(ps'.xbest)
            /\ \A i \in 1 .. Len(ps'.fy) : RLe(ps'.fbest, ps'.fy[i])
            /\ \E i \in 1 .. Len(ps'.fy) : ps'.fbest = ps'.fy[i]
       /\ (pspc = "init" /\ pspc' = "check") =>
            \E i \in 1 .. Len(ps.x) :
               /\ ps'.xbest = ps.x[i]
               /\ \A j \in 1 .. (i - 1) :
                     RLt(objective(ps.x[i]), objective(ps.x[j]))
       /\ (pspc \in PSLoop /\ pspc' \in PSLoop /\ ps'.xbest # ps.xbest) =>
            RLt(ps'.fbest, ps.fbest)
      ]_vars

\* C13 witness: a swarm that started from two points of equal cost kept the
\* first of them as xbest, and later found a strictly better xbest.
C13_Witness ==
    /\ pspc = "done"
    /\ ps.passed = <<R(0), R(2)>>
    /\ ps.xbest \notin {R(0), R(2)}
    /\ RLt(ps.fbest, R(1))
    /\ ps.fbest = objective(ps.xbest)

\* C14: ParticleSwarm.solve does not modify the initial population it is
\* given: throughout the solve the caller's list holds the points it held
\* when it was passed, in the same order.  (Lines 73-83 make no copy of a
\* list that is passed, so x names the caller's list.)
C14_InputNotModified ==
    (ps.given = "list" /\ pspc \in PSLoop) => ps.x = ps.passed

====
